---- MODULE Spec2Model ----
(***************************************************************************)
(* Reference resolution and memory learning of Glyph's agent mode:         *)
(* AgentMemory (agent_memory.py), ConversationContext (agent_context.py),  *)
(* AgentTools (agent_tools.py) and AgentSession (agent_cli.py).            *)
(*                                                                         *)
(* Python strings are sequences of one-character strings; None is a value  *)
(* no string equals.  Scores are exact rationals <<numerator, denominator>>.*)
(* Timestamps, the context text of a reference and console output are not  *)
(* modelled: no decision of the code reads them.                           *)
(***************************************************************************)
EXTENDS Integers, Sequences, FiniteSets, TLC

\* ------------------------------------------------------------------ bounds
\* A reference's usage_count is capped at MaxUsage by the guards of the
\* registering actions.
MaxUsage == 2

\* The number of saves that fail in one run.
MaxFaults == 1

\* The largest number the user types at the selection prompt.
MaxChoice == 3

\* the longest list of tool calls the model gives one command
MaxCalls == 2

\* max_tool_calls_per_session as configured for the sessions explored
MaxToolCalls == 3

\* the most turns a context is given before it is constructed anew
MaxTurns == 25

\* the most commands a session is given before the process is started anew
MaxCommands == 2

\* ------------------------------------------------------- program constants
\* self.last_opened_notes[:5]
LastOpenedCap == 5

\* ConversationContext.__init__(self, max_history: int = 20)
max_history == 20

\* self._find_similar_notes(name, max_suggestions=5)
MaxSuggestions == 5

\* ------------------------------------------------------------ Python values
None == <<"None">>

Truthy(s) == s # None /\ s # <<>>

Min(a, b) == IF a < b THEN a ELSE b

SetMin(S) == CHOOSE x \in S : \A y \in S : x <= y

\* ----------------------------------------------------------------- strings
LowerChar(c) ==
    CASE c = "A" -> "a" [] c = "B" -> "b" [] c = "C" -> "c" [] c = "D" -> "d"
      [] c = "I" -> "i" [] c = "T" -> "t" [] c = "M" -> "m" [] c = "X" -> "x"
      [] OTHER -> c

Lower(s) == [i \in 1..Len(s) |-> LowerChar(s[i])]

IsSpace(c) == c = " "

RECURSIVE LStrip(_)
LStrip(s) == IF s # <<>> /\ IsSpace(Head(s)) THEN LStrip(Tail(s)) ELSE s

RECURSIVE RStrip(_)
RStrip(s) ==
    IF s # <<>> /\ IsSpace(s[Len(s)]) THEN RStrip(SubSeq(s, 1, Len(s) - 1)) ELSE s

Strip(s) == RStrip(LStrip(s))

\* sub in s
Contains(sub, s) ==
    \E i \in 1..(Len(s) - Len(sub) + 1) : SubSeq(s, i, i + Len(sub) - 1) = sub

EndsWith(s, suf) ==
    Len(s) >= Len(suf) /\ SubSeq(s, Len(s) - Len(suf) + 1, Len(s)) = suf

StartsWithAt(s, i, pat) ==
    i + Len(pat) - 1 <= Len(s) /\ SubSeq(s, i, i + Len(pat) - 1) = pat

\* s.replace(pat, '')
RECURSIVE RemoveAll(_, _)
RemoveAll(s, pat) ==
    IF s = <<>> THEN <<>>
    ELSE IF StartsWithAt(s, 1, pat) THEN RemoveAll(SubSeq(s, Len(pat) + 1, Len(s)), pat)
    ELSE <<Head(s)>> \o RemoveAll(Tail(s), pat)

DotMd == <<".", "m", "d">>

Slash == "/"

\* re.sub(r'[<>:"/\\|?*]', '_', name)
InvalidNameChars == {"<", ">", ":", "\"", "/", "\\", "|", "?", "*"}

IsWordChar(c) == c \notin ({" ", ".", "-", "'", ","} \cup InvalidNameChars)

\* re.findall(r'\w+', s)
RECURSIVE Words(_)
Words(s) ==
    IF s = <<>> THEN <<>>
    ELSE IF ~IsWordChar(Head(s)) THEN Words(Tail(s))
    ELSE LET stop == {i \in 1..Len(s) : ~IsWordChar(s[i])}
             n == IF stop = {} THEN Len(s) ELSE SetMin(stop) - 1
         IN <<SubSeq(s, 1, n)>> \o Words(SubSeq(s, n + 1, Len(s)))

\* s.split('/')[-1]
LastSegment(s) ==
    LET cut == {i \in 1..Len(s) : s[i] = Slash}
    IN IF cut = {} THEN s
       ELSE SubSeq(s, (CHOOSE i \in cut : \A j \in cut : j <= i) + 1, Len(s))

\* -------------------------------------------------- difflib.SequenceMatcher
\* the length of the common run of a[i..ahi] and b[j..bhi]
RECURSIVE RunLen(_, _, _, _, _, _)
RunLen(a, b, i, j, ahi, bhi) ==
    IF i <= ahi /\ j <= bhi /\ a[i] = b[j]
    THEN 1 + RunLen(a, b, i + 1, j + 1, ahi, bhi)
    ELSE 0

\* <<i, j, k>>: the longest matching block, earliest in a, then earliest in b
FindLongestMatch(a, b, alo, ahi, blo, bhi) ==
    LET cand == {<<i, j>> : i \in alo..ahi, j \in blo..bhi}
        lens == {RunLen(a, b, c[1], c[2], ahi, bhi) : c \in cand}
        best == IF cand = {} THEN 0 ELSE CHOOSE k \in lens : \A l \in lens : l <= k
    IN IF best = 0 THEN <<alo, blo, 0>>
       ELSE LET hits == {c \in cand : RunLen(a, b, c[1], c[2], ahi, bhi) = best}
                i0 == SetMin({c[1] : c \in hits})
                j0 == SetMin({c[2] : c \in {h \in hits : h[1] = i0}})
            IN <<i0, j0, best>>

RECURSIVE MatchingChars(_, _, _, _, _, _)
MatchingChars(a, b, alo, ahi, blo, bhi) ==
    LET m == FindLongestMatch(a, b, alo, ahi, blo, bhi)
    IN IF m[3] = 0 THEN 0
       ELSE m[3] + MatchingChars(a, b, alo, m[1] - 1, blo, m[2] - 1)
                 + MatchingChars(a, b, m[1] + m[3], ahi, m[2] + m[3], bhi)

\* SequenceMatcher(None, a, b).ratio() = 2.0 * matches / (len(a) + len(b))
Ratio(a, b) ==
    IF Len(a) + Len(b) = 0 THEN <<1, 1>>
    ELSE <<2 * MatchingChars(a, b, 1, Len(a), 1, Len(b)), Len(a) + Len(b)>>

\* --------------------------------------------------------------- rationals
RLess(x, y) == x[1] * y[2] < y[1] * x[2]

RLeq(x, y) == x[1] * y[2] <= y[1] * x[2]

RMax(x, y) == IF RLess(x, y) THEN y ELSE x

RAdd(x, y) == <<x[1] * y[2] + y[1] * x[2], x[2] * y[2]>>

\* ------------------------------------------------------- the strings in use
S_empty == <<>>
S_blank == <<" ">>
S_it == <<"i", "t">>
S_It == <<" ", "I", "t">>
S_that == <<"t", "h", "a", "t">>
S_this == <<"t", "h", "i", "s">>
S_the_note == <<"t", "h", "e", " ", "n", "o", "t", "e">>
S_abc == <<"a", "b", "c">>
S_Abc == <<"A", "b", "c", " ">>
S_a == <<"a">>

S_ab == <<"a", "b">>
S_abx == <<"a", "b", "x">>
S_q == <<"q">>

S_zzz == <<"z", "z", "z">>
S_bcd == <<"b", "c", "d">>
S_AbX == <<"A", "b", "X">>
S_that_note == <<"t", "h", "a", "t", " ", "n", "o", "t", "e">>

S_the_note_I_just_created ==
    <<"t", "h", "e", " ", "n", "o", "t", "e", " ", "I", " ", "j", "u", "s", "t", " ", "c", "r", "e", "a", "t", "e", "d">>

S_just_created == <<"j", "u", "s", "t", " ", "c", "r", "e", "a", "t", "e", "d">>
S_i_created == <<"i", " ", "c", "r", "e", "a", "t", "e", "d">>
S_last_opened == <<"l", "a", "s", "t", " ", "o", "p", "e", "n", "e", "d">>
S_opened == <<"o", "p", "e", "n", "e", "d">>
S_current == <<"c", "u", "r", "r", "e", "n", "t">>
S_this_note == <<"t", "h", "i", "s", " ", "n", "o", "t", "e">>
NoteA == S_abc \o DotMd
NoteB == S_bcd \o DotMd

\* ------------------------------------------------------------------- state
VARIABLES
    \* AgentMemory
    user_aliases,            \* ordered dict: sequence of <<user_term, note_path>>
    note_references,         \* note_path -> sequence of NoteReference
    entities,                \* name -> set of related notes
    conversation_patterns,   \* pattern key -> sequence of notes
    disk,                    \* memory_dir: file name -> content
    faults,                  \* failed saves so far
    \* ConversationContext
    current_focus,
    last_created_note,
    last_modified_note,
    last_opened_notes,
    current_session_entities,   \* ordered dict: sequence of <<entity, notes>>
    conversation_history,    \* deque(maxlen=max_history) of turns, oldest first
    \* AgentTools
    vault,                   \* the relative paths of the files of the vault
    tool_call_count,
    \* two more processes, each with its own AgentMemory over memory_dir
    writers,                 \* process -> [mem, saving, at]
    \* the outcome of the last operation
    last

memvars == <<user_aliases, note_references, entities, conversation_patterns>>

ctxvars ==
    <<current_focus, last_created_note, last_modified_note, last_opened_notes,
      current_session_entities, conversation_history>>

toolvars == <<vault, tool_call_count, writers>>

vars == <<memvars, disk, faults, ctxvars, toolvars, last>>

\* An AgentMemory object as one value.
Mem ==
    [user_aliases |-> user_aliases, note_references |-> note_references,
     entities |-> entities, conversation_patterns |-> conversation_patterns]

EmptyMem ==
    [user_aliases |-> <<>>, note_references |-> <<>>,
     entities |-> <<>>, conversation_patterns |-> <<>>]

\* A ConversationContext object as one value.
Ctx ==
    [current_focus |-> current_focus, last_created_note |-> last_created_note,
     last_modified_note |-> last_modified_note, last_opened_notes |-> last_opened_notes,
     current_session_entities |-> current_session_entities,
     conversation_history |-> conversation_history]

EmptyCtx ==
    [current_focus |-> None, last_created_note |-> None, last_modified_note |-> None,
     last_opened_notes |-> <<>>, current_session_entities |-> <<>>,
     conversation_history |-> <<>>]

\* ------------------------------------------------------------- AgentMemory
\* dict operations on a sequence of <<key, value>> pairs (insertion-ordered)
DictHas(d, k) == \E i \in 1..Len(d) : d[i][1] = k

DictGet(d, k) == d[CHOOSE i \in 1..Len(d) : d[i][1] = k][2]

DictPut(d, k, v) ==
    IF DictHas(d, k)
    THEN [i \in 1..Len(d) |-> IF d[i][1] = k THEN <<k, v>> ELSE d[i]]
    ELSE Append(d, <<k, v>>)

\* user_term.lower().strip()
Clean(user_term) == Strip(Lower(user_term))

\* self.note_references[path] of the defaultdict(list)
RefsOf(refs, path) == IF path \in DOMAIN refs THEN refs[path] ELSE <<>>

\* the positions of the references of `path` whose term is `term_clean`
RefHits(refs, path, term_clean) ==
    {i \in 1..Len(RefsOf(refs, path)) : Lower(RefsOf(refs, path)[i].user_term) = term_clean}

\* the usage_count of the first such reference, 0 when there is none
UsageOf(refs, path, term_clean) ==
    IF RefHits(refs, path, term_clean) = {} THEN 0
    ELSE RefsOf(refs, path)[SetMin(RefHits(refs, path, term_clean))].usage_count

\* a registration that appends a new reference also when one exists
RegisterInMemoryAlwaysNew(m, user_term, resolved_path) ==
    [m EXCEPT !.user_aliases = DictPut(@, Clean(user_term), resolved_path),
              !.note_references =
                  (resolved_path :> Append(RefsOf(@, resolved_path),
                                           [user_term |-> Clean(user_term),
                                            resolved_path |-> resolved_path,
                                            usage_count |-> 1])) @@ @]

\* a registration that keys the alias by the term as given
RegisterInMemoryRaw(m, user_term, resolved_path) ==
    [m EXCEPT !.user_aliases = DictPut(@, user_term, resolved_path),
              !.note_references =
                  (resolved_path :> Append(RefsOf(@, resolved_path),
                                           [user_term |-> user_term,
                                            resolved_path |-> resolved_path,
                                            usage_count |-> 1])) @@ @]

\* a registration that leaves the path of an alias that is there already
RegisterInMemoryKeepFirst(m, user_term, resolved_path) ==
    LET user_term_clean == Clean(user_term)
        old == RefsOf(m.note_references, resolved_path)
        hits == RefHits(m.note_references, resolved_path, user_term_clean)
        new == IF hits # {}
               THEN [old EXCEPT ![SetMin(hits)].usage_count = @ + 1]
               ELSE Append(old, [user_term |-> user_term_clean,
                                 resolved_path |-> resolved_path,
                                 usage_count |-> 1])
    IN [m EXCEPT !.user_aliases =
                    IF DictHas(@, user_term_clean) THEN @
                    ELSE DictPut(@, user_term_clean, resolved_path),
                 !.note_references = (resolved_path :> new) @@ @]

\* register_note_reference up to the save: the in-memory update
RegisterInMemory(m, user_term, resolved_path) ==
    LET user_term_clean == Clean(user_term)
        old == RefsOf(m.note_references, resolved_path)
        hits == RefHits(m.note_references, resolved_path, user_term_clean)
        new == IF hits # {}
               THEN [old EXCEPT ![SetMin(hits)].usage_count = @ + 1]
               ELSE Append(old, [user_term |-> user_term_clean,
                                 resolved_path |-> resolved_path,
                                 usage_count |-> 1])
    IN [m EXCEPT !.user_aliases = DictPut(@, user_term_clean, resolved_path),
                 !.note_references = (resolved_path :> new) @@ @]

\* _fuzzy_match_references: the loop over user_aliases.items() from position i
\* with the best match and score so far
Threshold == <<8, 10>>

ContainedScore == <<9, 10>>

AliasScore(user_term, alias) ==
    IF Contains(user_term, alias) \/ Contains(alias, user_term)
    THEN RMax(Ratio(user_term, alias), ContainedScore)
    ELSE Ratio(user_term, alias)

\* a loop in which a later alias of equal score replaces the best match
RECURSIVE FuzzyLoopLastWins(_, _, _, _, _)
FuzzyLoopLastWins(aliases, user_term, i, best_match, best_score) ==
    IF i > Len(aliases) THEN best_match
    ELSE LET score == AliasScore(user_term, aliases[i][1])
         IN IF RLeq(best_score, score) /\ RLeq(Threshold, score)
            THEN FuzzyLoopLastWins(aliases, user_term, i + 1, aliases[i][2], score)
            ELSE FuzzyLoopLastWins(aliases, user_term, i + 1, best_match, best_score)

RECURSIVE FuzzyLoop(_, _, _, _, _)
FuzzyLoop(aliases, user_term, i, best_match, best_score) ==
    IF i > Len(aliases) THEN best_match
    ELSE LET score == AliasScore(user_term, aliases[i][1])
         IN IF RLess(best_score, score) /\ RLeq(Threshold, score)
            THEN FuzzyLoop(aliases, user_term, i + 1, aliases[i][2], score)
            ELSE FuzzyLoop(aliases, user_term, i + 1, best_match, best_score)

FuzzyMatchReferences(m, user_term) ==
    LET best_match == FuzzyLoop(m.user_aliases, user_term, 1, None, <<0, 1>>)
    IN IF Truthy(best_match) THEN best_match ELSE None

\* resolve_note_reference: [path, how], how = "alias" for the direct lookup
\* and "similar" for a match of _fuzzy_match_references
ResolveNoteReference(m, user_term) ==
    LET user_term_clean == Clean(user_term)
    IN IF DictHas(m.user_aliases, user_term_clean)
       THEN [path |-> DictGet(m.user_aliases, user_term_clean), how |-> "alias"]
       ELSE [path |-> FuzzyMatchReferences(m, user_term_clean), how |-> "similar"]

\* ------------------------------------------------------ the memory directory
\* the files in the order _save_memory writes and _load_memory reads them
FileNames ==
    <<"note_references", "user_aliases", "entities", "conversation_patterns",
      "user_preferences">>

Files == {FileNames[i] : i \in 1..Len(FileNames)}

FileIndex(f) == CHOOSE i \in 1..Len(FileNames) : FileNames[i] = f

Missing == [st |-> "missing"]

Corrupt == [st |-> "corrupt"]

Json(data) == [st |-> "json", data |-> data]

\* what json.dump writes for each file
DumpOf(m, f) ==
    CASE f = "note_references" -> Json(m.note_references)
      [] f = "user_aliases" -> Json(m.user_aliases)
      [] f = "entities" -> Json(m.entities)
      [] f = "conversation_patterns" -> Json(m.conversation_patterns)
      [] f = "user_preferences" -> Json(<<>>)

\* A save that fails: open(.., 'w') or json.dump of file number `at` raises,
\* and the except clause ends the save.  mode "open": the open itself fails
\* and the file keeps its content; mode "write": the file was truncated by
\* the open and holds a prefix of the JSON text.
NoFail == [at |-> 0, mode |-> "none"]

Fails == {NoFail} \cup [at : 1..Len(FileNames), mode : {"open", "write"}]

\* a save that leaves user_aliases.json as it was
SaveMemorySkipAliases(m, d, fail) ==
    [f \in Files |->
        IF f = "user_aliases" THEN d[f]
        ELSE IF fail.at = 0 \/ FileIndex(f) < fail.at THEN DumpOf(m, f)
        ELSE IF FileIndex(f) = fail.at /\ fail.mode = "write" THEN Corrupt
        ELSE d[f]]

\* _save_memory: the directory after it
SaveMemory(m, d, fail) ==
    [f \in Files |->
        IF fail.at = 0 \/ FileIndex(f) < fail.at THEN DumpOf(m, f)
        ELSE IF FileIndex(f) = fail.at /\ fail.mode = "write" THEN Corrupt
        ELSE d[f]]

\* _load_memory: the files are read in order into a new AgentMemory; the first
\* file json.load rejects raises and ends the load
Loadable(d, f) ==
    /\ d[f].st = "json"
    /\ \A g \in Files : FileIndex(g) < FileIndex(f) => d[g].st # "corrupt"

LoadMemory(d) ==
    [user_aliases |->
        IF Loadable(d, "user_aliases") THEN d["user_aliases"].data ELSE <<>>,
     note_references |->
        IF Loadable(d, "note_references") THEN d["note_references"].data ELSE <<>>,
     entities |->
        IF Loadable(d, "entities") THEN d["entities"].data ELSE <<>>,
     conversation_patterns |->
        IF Loadable(d, "conversation_patterns")
        THEN d["conversation_patterns"].data ELSE <<>>]

\* ----------------------------------------------------- ConversationContext
Pronouns == {S_it, S_that, S_this, S_the_note}

\* a or b or c
Or3(a, b, c) == IF Truthy(a) THEN a ELSE IF Truthy(b) THEN b ELSE c

\* the first entity of the session table whose lowercased name holds the
\* reference: 0 when there is none
EntityHit(table, reference_lower) ==
    LET hits == {i \in 1..Len(table) : Contains(reference_lower, Lower(table[i][1]))}
    IN IF hits = {} THEN 0 ELSE SetMin(hits)

\* a resolve_reference that asks last_modified_note first for a pronoun
ContextResolveModifiedFirst(c, m, reference) ==
    [path |-> Or3(c.last_modified_note, c.current_focus, c.last_created_note),
     rule |-> "pronoun", how |-> "pronoun"]

\* a resolve_reference that looks the reference up in the memory before the
\* pronoun and keyword rules
ContextResolveMemoryFirst(c, m, reference) ==
    LET reference_lower == Clean(reference)
        memory_result == ResolveNoteReference(m, reference)
        hit == EntityHit(c.current_session_entities, reference_lower)
    IN IF Truthy(memory_result.path)
       THEN [path |-> memory_result.path, rule |-> "memory", how |-> memory_result.how]
       ELSE IF reference_lower \in Pronouns
       THEN [path |-> Or3(c.current_focus, c.last_modified_note, c.last_created_note),
             rule |-> "pronoun", how |-> "pronoun"]
       ELSE IF Contains(S_just_created, reference_lower)
                 \/ Contains(S_i_created, reference_lower)
       THEN [path |-> c.last_created_note, rule |-> "created", how |-> "rule"]
       ELSE IF Contains(S_last_opened, reference_lower)
                 \/ Contains(S_opened, reference_lower)
       THEN [path |-> IF c.last_opened_notes # <<>> THEN c.last_opened_notes[1] ELSE None,
             rule |-> "opened", how |-> "rule"]
       ELSE IF Contains(S_current, reference_lower)
                 \/ Contains(S_this_note, reference_lower)
       THEN [path |-> c.current_focus, rule |-> "current", how |-> "rule"]
       ELSE IF hit # 0
       THEN [path |-> IF c.current_session_entities[hit][2] # <<>>
                      THEN c.current_session_entities[hit][2][1] ELSE None,
             rule |-> "entity", how |-> "entity"]
       ELSE [path |-> None, rule |-> "none", how |-> "none"]

\* resolve_reference: [path, rule, how]
ContextResolveReference(c, m, reference) ==
    LET reference_lower == Clean(reference)
        memory_result == ResolveNoteReference(m, reference)
        hit == EntityHit(c.current_session_entities, reference_lower)
    IN IF reference_lower \in Pronouns
       THEN [path |-> Or3(c.current_focus, c.last_modified_note, c.last_created_note),
             rule |-> "pronoun", how |-> "pronoun"]
       ELSE IF Contains(S_just_created, reference_lower)
                 \/ Contains(S_i_created, reference_lower)
       THEN [path |-> c.last_created_note, rule |-> "created", how |-> "rule"]
       ELSE IF Contains(S_last_opened, reference_lower)
                 \/ Contains(S_opened, reference_lower)
       THEN [path |-> IF c.last_opened_notes # <<>> THEN c.last_opened_notes[1] ELSE None,
             rule |-> "opened", how |-> "rule"]
       ELSE IF Contains(S_current, reference_lower)
                 \/ Contains(S_this_note, reference_lower)
       THEN [path |-> c.current_focus, rule |-> "current", how |-> "rule"]
       ELSE IF Truthy(memory_result.path)
       THEN [path |-> memory_result.path, rule |-> "memory", how |-> memory_result.how]
       ELSE IF hit # 0
       THEN [path |-> IF c.current_session_entities[hit][2] # <<>>
                      THEN c.current_session_entities[hit][2][1] ELSE None,
             rule |-> "entity", how |-> "entity"]
       ELSE [path |-> None, rule |-> "none", how |-> "none"]

\* update_focus(note_name, operation_type); recent_operations is not modelled
UpdateFocusOf(c, note_name, operation_type) ==
    [c EXCEPT
        !.current_focus =
            IF operation_type \in {"create_note", "open_note", "edit_note"}
            THEN note_name ELSE @,
        !.last_created_note =
            IF operation_type = "create_note" THEN note_name ELSE @,
        !.last_modified_note =
            IF operation_type \in {"edit_note", "insert_section", "append_section"}
            THEN note_name ELSE @,
        !.last_opened_notes =
            IF operation_type \in {"open_note", "open_notes"}
            THEN LET l == IF \E i \in 1..Len(@) : @[i] = note_name
                          THEN @ ELSE <<note_name>> \o @
                 IN SubSeq(l, 1, Min(Len(l), LastOpenedCap))
            ELSE @]

\* datetime.now() of the next turn: turns are stamped in the order they arrive
NextStamp(history) ==
    IF history = <<>> THEN 1 ELSE history[Len(history)].timestamp + 1

\* an append that drops the new turn when the deque is full
AppendTurnKeepOldest(history, turn) ==
    IF Len(history) >= max_history THEN history ELSE Append(history, turn)

\* self.conversation_history.append(turn) on a deque(maxlen=max_history)
AppendTurn(history, turn) ==
    IF Len(history) >= max_history
    THEN SubSeq(history, Len(history) - max_history + 2, Len(history)) \o <<turn>>
    ELSE Append(history, turn)

\* the turn add_conversation_turn builds; user, assistant and tool_calls are
\* stored as given and read by no operation modelled
Turn(history, resolved_notes) ==
    [timestamp |-> NextStamp(history), resolved_notes |-> resolved_notes]

\* the orders list(set(..)) may give
Perms(S) == {q \in [1..Cardinality(S) -> S] : \A x \in S : \E i \in DOMAIN q : q[i] = x}

SeqSet(q) == {q[i] : i \in DOMAIN q}

\* --------------------------------------------------------------- AgentTools
\* the order in which rglob("*.md") lists the notes that exist
NoteOrder == <<NoteA, NoteB>>

\* note_path.exists() of vault_path / rel
Exists(v, rel) == rel \in v

\* _tool_list_notes() without query or folder: data['notes']
RECURSIVE ListFrom(_, _)
ListFrom(v, i) ==
    IF i > Len(NoteOrder) THEN <<>>
    ELSE IF NoteOrder[i] \in v THEN <<NoteOrder[i]>> \o ListFrom(v, i + 1)
    ELSE ListFrom(v, i + 1)

ListNotes(v) == ListFrom(v, 1)

\* _validate_note_name of a non-empty name
SafeName(name) ==
    LET safe_name == [i \in 1..Len(name) |->
                        IF name[i] \in InvalidNameChars THEN "_" ELSE name[i]]
    IN IF EndsWith(safe_name, DotMd) THEN safe_name ELSE safe_name \o DotMd

Raises == <<"AgentToolError">>

\* the path the cascade tries as the literal one, relative to the vault;
\* Raises when _validate_note_name rejects the empty name
DirectPath(name) ==
    IF \E i \in 1..Len(name) : name[i] = Slash
    THEN IF EndsWith(name, DotMd) THEN name ELSE name \o DotMd
    ELSE IF name = <<>> THEN Raises
    ELSE SafeName(name)

\* _fallback_simple_matching, one note: [kept, confidence, rule, word_matches,
\* partial_halves]; the counts are those of the word loop, 0 when a substring
\* rule ends the iteration before it
ExactContains == <<95, 100>>

ReverseContains == <<90, 100>>

PatternBonus == <<3, 10>>

Relevance == <<25, 100>>

SimpleScore(target_name, note) ==
    LET target_clean == Strip(RemoveAll(Lower(target_name), DotMd))
        target_words == Words(target_clean)
        note_clean == Strip(RemoveAll(Lower(note), DotMd))
        note_words == Words(note_clean)
        pairs == (1..Len(target_words)) \X (1..Len(note_words))
        word_matches ==
            Cardinality({q \in pairs : target_words[q[1]] = note_words[q[2]]})
        \* the number of 0.5 added to partial_matches
        partial_halves ==
            Cardinality({q \in pairs :
                /\ target_words[q[1]] # note_words[q[2]]
                /\ \/ Contains(target_words[q[1]], note_words[q[2]])
                   \/ Contains(note_words[q[2]], target_words[q[1]])})
        similarity == Ratio(target_clean, note_clean)
        pattern_bonus ==
            IF (\E i \in 1..Len(target_name) : target_name[i] = Slash)
                 /\ Contains(Lower(LastSegment(target_name)), note_clean)
            THEN PatternBonus ELSE <<0, 1>>
        word_score ==
            IF target_words # <<>>
            THEN <<2 * word_matches + partial_halves, 2 * Len(target_words)>>
            ELSE <<0, 1>>
        final_score == RAdd(RMax(similarity, word_score), pattern_bonus)
    IN IF Contains(target_clean, note_clean)
       THEN [kept |-> TRUE, confidence |-> ExactContains, rule |-> "contains",
             word_matches |-> 0, partial_halves |-> 0]
       ELSE IF Contains(note_clean, target_clean)
       THEN [kept |-> TRUE, confidence |-> ReverseContains, rule |-> "contained",
             word_matches |-> 0, partial_halves |-> 0]
       ELSE [kept |-> RLess(Relevance, final_score) \/ word_matches > 0,
             confidence |-> final_score, rule |-> "scored",
             word_matches |-> word_matches, partial_halves |-> partial_halves]

\* the suggestions in the order of all_notes
RECURSIVE Scored(_, _, _)
Scored(target_name, all_notes, i) ==
    IF i > Len(all_notes) THEN <<>>
    ELSE LET sc == SimpleScore(target_name, all_notes[i])
         IN IF sc.kept
            THEN <<[note |-> all_notes[i], confidence |-> sc.confidence]>>
                   \o Scored(target_name, all_notes, i + 1)
            ELSE Scored(target_name, all_notes, i + 1)

\* an insertion that puts a suggestion before those of equal confidence
InsertDescBeforeEqual(sorted, x) ==
    LET k == Cardinality({i \in 1..Len(sorted) : RLess(x.confidence, sorted[i].confidence)})
    IN SubSeq(sorted, 1, k) \o <<x>> \o SubSeq(sorted, k + 1, Len(sorted))

\* suggestions.sort(key=confidence, reverse=True): stable
InsertDesc(sorted, x) ==
    LET k == Cardinality({i \in 1..Len(sorted) : RLeq(x.confidence, sorted[i].confidence)})
    IN SubSeq(sorted, 1, k) \o <<x>> \o SubSeq(sorted, k + 1, Len(sorted))

RECURSIVE SortDesc(_)
SortDesc(q) ==
    IF q = <<>> THEN <<>>
    ELSE InsertDesc(SortDesc(SubSeq(q, 1, Len(q) - 1)), q[Len(q)])

FallbackSimpleMatching(target_name, all_notes, max_suggestions) ==
    LET sorted == SortDesc(Scored(target_name, all_notes, 1))
    IN SubSeq(sorted, 1, Min(Len(sorted), max_suggestions))

\* _find_similar_notes
FindSimilarNotes(v, target_name, max_suggestions) ==
    IF ListNotes(v) = <<>> THEN <<>>
    ELSE FallbackSimpleMatching(target_name, ListNotes(v), max_suggestions)

\* What the user types at the prompt: number 0 stands for 'n', -1 for text
\* that is no number; manual is the name typed when asked for one.
Choices(manuals) == [number : -1..MaxChoice, manual : manuals]

\* _ask_user_for_note_confirmation: [note, how, prompted]
AskUserForNoteConfirmation(suggestions, choice) ==
    IF choice.number <= 0
    THEN [note |-> None, how |-> "none", prompted |-> TRUE]
    ELSE IF choice.number - 1 < Len(suggestions)
    THEN [note |-> suggestions[choice.number].note, how |-> "doc_similar", prompted |-> TRUE]
    ELSE IF choice.number - 1 = Len(suggestions)
    THEN IF Strip(choice.manual) # <<>>
         THEN [note |-> IF EndsWith(Strip(choice.manual), DotMd) THEN Strip(choice.manual)
                        ELSE Strip(choice.manual) \o DotMd,
               how |-> "manual", prompted |-> TRUE]
         ELSE [note |-> None, how |-> "none", prompted |-> TRUE]
    ELSE [note |-> None, how |-> "none", prompted |-> TRUE]

\* one stage of the cascade as consulted: its result and whether it ended the
\* cascade with a document
Stage(stage, result, ok) == [stage |-> stage, result |-> result, ok |-> ok]

\* the stages with the context asked before the memory
CascadeContextFirst(m, v, d, name, memory_result, context_result, suggestions) ==
    LET mem_ok == Truthy(memory_result.path) /\ Exists(v, memory_result.path)
        ctx_ok == Truthy(context_result.path) /\ Exists(v, context_result.path)
        s1 == Stage("context", context_result.path, ctx_ok)
        s2 == Stage("memory", memory_result.path, mem_ok)
    IN IF ctx_ok
       THEN [path |-> context_result.path, source |-> "context", how |-> context_result.how,
             trace |-> <<s1>>, suggestions |-> <<>>,
             mem |-> RegisterInMemory(m, name, context_result.path),
             disk |-> SaveMemory(RegisterInMemory(m, name, context_result.path), d, NoFail)]
       ELSE IF mem_ok
       THEN [path |-> memory_result.path, source |-> "memory", how |-> memory_result.how,
             trace |-> <<s1, s2>>, suggestions |-> <<>>, mem |-> m, disk |-> d]
       ELSE [path |-> None, source |-> "not_found", how |-> "none",
             trace |-> <<s1, s2>>, suggestions |-> <<>>, mem |-> m, disk |-> d]

\* the stages of _resolve_note_with_fallback over the results of the calls it
\* makes: memory_result, context_result and the suggestions
Cascade(m, v, d, name, memory_result, context_result, suggestions) ==
    LET mem_ok == Truthy(memory_result.path) /\ Exists(v, memory_result.path)
        ctx_ok == Truthy(context_result.path) /\ Exists(v, context_result.path)
        note_path == DirectPath(name)
        s1 == Stage("memory", memory_result.path, mem_ok)
        s2 == Stage("context", context_result.path, ctx_ok)
        s3 == Stage("direct", note_path, note_path # Raises /\ Exists(v, note_path))
    IN IF mem_ok
       THEN [path |-> memory_result.path, source |-> "memory", how |-> memory_result.how,
             trace |-> <<s1>>, suggestions |-> <<>>, mem |-> m, disk |-> d]
       ELSE IF ctx_ok
       THEN [path |-> context_result.path, source |-> "context", how |-> context_result.how,
             trace |-> <<s1, s2>>, suggestions |-> <<>>,
             mem |-> RegisterInMemory(m, name, context_result.path),
             disk |-> SaveMemory(RegisterInMemory(m, name, context_result.path), d, NoFail)]
       ELSE IF note_path = Raises
       THEN [path |-> None, source |-> "error", how |-> "none",
             trace |-> <<s1, s2, s3>>, suggestions |-> <<>>, mem |-> m, disk |-> d]
       ELSE IF Exists(v, note_path)
       THEN [path |-> note_path, source |-> "direct", how |-> "literal",
             trace |-> <<s1, s2, s3>>, suggestions |-> <<>>, mem |-> m, disk |-> d]
       ELSE IF suggestions = <<>>
       THEN [path |-> None, source |-> "not_found", how |-> "none",
             trace |-> <<s1, s2, s3, Stage("fuzzy", None, FALSE)>>,
             suggestions |-> <<>>, mem |-> m, disk |-> d]
       ELSE [path |-> None, source |-> "ask", how |-> "none",
             trace |-> <<s1, s2, s3>>, suggestions |-> suggestions, mem |-> m, disk |-> d]

\* _resolve_note_with_fallback(name) up to the prompt:
\* [path, source, how, trace, suggestions, mem, disk], path relative to the
\* vault; source "ask" with the suggestions to show when the prompt is next
ResolveNoteWithFallback(m, c, v, d, name) ==
    CHOOSE out \in
        {Cascade(m, v, d, name, memory_result, context_result, suggestions) :
            memory_result \in {ResolveNoteReference(m, name)},
            context_result \in {ContextResolveReference(c, m, name)},
            suggestions \in {FindSimilarNotes(v, name, MaxSuggestions)}} : TRUE

\* the end of _resolve_note_with_fallback: the prompt, if it is next, and the
\* return of the selected note; [path, source, how, trace, prompted, mem, disk]
ResolveNoteSelected(pre, choice) ==
    LET selected == AskUserForNoteConfirmation(pre.suggestions, choice)
        base == [path |-> pre.path, source |-> pre.source, how |-> pre.how,
                 trace |-> pre.trace, prompted |-> FALSE,
                 mem |-> pre.mem, disk |-> pre.disk]
    IN IF pre.source # "ask" THEN base
       ELSE [base EXCEPT
               !.path = selected.note,
               !.source = IF Truthy(selected.note) THEN "prompt" ELSE "cancelled",
               !.how = selected.how,
               !.prompted = selected.prompted,
               !.trace = Append(@, Stage("fuzzy", selected.note, Truthy(selected.note)))]

\* ------------------------------------------------ operations of AgentMemory
\* the terms and paths the calls are made with
RegTerms == {S_abc, S_Abc, S_ab}

AskTerms == RegTerms \cup {S_abx, S_a}

RegPaths == {NoteA, NoteB}

\* what the directory holds after a save, against the directory before it and
\* the memory saved
Persisted(before, after, m) ==
    IF \A f \in Files : after[f] = DumpOf(m, f) THEN "after"
    ELSE IF after = before THEN "before"
    ELSE IF \E f \in Files : after[f].st = "corrupt" THEN "corrupt"
    ELSE "mixed"

\* the processes that run an AgentMemory over the one directory side by side
Writers == {1, 2}

\* a new process over a memory directory that does not exist yet and a vault
\* holding the notes v
InitWith(v) ==
    /\ user_aliases = <<>>
    /\ note_references = <<>>
    /\ entities = <<>>
    /\ conversation_patterns = <<>>
    /\ disk = [f \in Files |-> Missing]
    /\ faults = 0
    /\ current_focus = None
    /\ last_created_note = None
    /\ last_modified_note = None
    /\ last_opened_notes = <<>>
    /\ current_session_entities = <<>>
    /\ conversation_history = <<>>
    /\ vault = v
    /\ tool_call_count = 0
    /\ writers = [w \in Writers |-> [mem |-> EmptyMem, saving |-> FALSE, at |-> 0]]
    /\ last = [op |-> "init"]

Init == InitWith({NoteA, NoteB})

SetMem(m) ==
    /\ user_aliases' = m.user_aliases
    /\ note_references' = m.note_references
    /\ entities' = m.entities
    /\ conversation_patterns' = m.conversation_patterns

SetCtx(c) ==
    /\ current_focus' = c.current_focus
    /\ last_created_note' = c.last_created_note
    /\ last_modified_note' = c.last_modified_note
    /\ last_opened_notes' = c.last_opened_notes
    /\ current_session_entities' = c.current_session_entities
    /\ conversation_history' = c.conversation_history

\* a registration that takes its in-memory update back when the save fails
RegisterNoteReferenceRollback(user_term, resolved_path, fail) ==
    LET m == IF fail = NoFail THEN RegisterInMemory(Mem, user_term, resolved_path) ELSE Mem
        before == UsageOf(note_references, resolved_path, Clean(user_term))
    IN /\ before < MaxUsage
       /\ fail # NoFail => faults < MaxFaults
       /\ faults' = IF fail = NoFail THEN faults ELSE faults + 1
       /\ SetMem(m)
       /\ disk' = SaveMemory(m, disk, fail)
       /\ last' = [op |-> "register", term |-> user_term, path |-> resolved_path,
                   saved |-> (fail = NoFail),
                   persisted |-> Persisted(disk, SaveMemory(m, disk, fail), m),
                   usage_before |-> before]
       /\ UNCHANGED <<ctxvars, toolvars>>

\* register_note_reference(user_term, resolved_path), its save included
RegisterNoteReference(user_term, resolved_path, fail) ==
    LET m == RegisterInMemory(Mem, user_term, resolved_path)
        before == UsageOf(note_references, resolved_path, Clean(user_term))
    IN /\ before < MaxUsage
       /\ fail # NoFail => faults < MaxFaults
       /\ faults' = IF fail = NoFail THEN faults ELSE faults + 1
       /\ SetMem(m)
       /\ disk' = SaveMemory(m, disk, fail)
       /\ last' = [op |-> "register", term |-> user_term, path |-> resolved_path,
                   saved |-> (fail = NoFail),
                   persisted |-> Persisted(disk, SaveMemory(m, disk, fail), m),
                   usage_before |-> before]
       /\ UNCHANGED <<ctxvars, toolvars>>

\* resolve_note_reference(user_term)
MemoryResolve(user_term) ==
    LET r == ResolveNoteReference(Mem, user_term)
    IN /\ last' = [op |-> "mem_resolve", term |-> user_term, path |-> r.path, how |-> r.how]
       /\ UNCHANGED <<memvars, disk, faults, ctxvars, toolvars>>

\* clear_memory: the dicts are cleared and the files unlinked
ClearMemory ==
    /\ user_aliases # <<>>
    /\ SetMem(EmptyMem)
    /\ disk' = [f \in Files |-> Missing]
    /\ last' = [op |-> "clear"]
    /\ UNCHANGED <<faults, ctxvars, toolvars>>

\* the process ends and a new one constructs AgentMemory over the directory
Restart ==
    /\ last.op # "restart"
    /\ SetMem(LoadMemory(disk))
    /\ SetCtx(EmptyCtx)
    /\ tool_call_count' = 0
    /\ last' = [op |-> "restart"]
    /\ UNCHANGED <<disk, faults, vault, writers>>

MemNext ==
    \/ \E t \in RegTerms, p \in RegPaths : RegisterNoteReference(t, p, NoFail)
    \/ \E t \in AskTerms : MemoryResolve(t)
    \/ ClearMemory
    \/ Restart

SpecMem == Init /\ [][MemNext]_vars

\* The memory directory under failing saves and restarts.
DiskTerms == {S_abc, S_Abc}

DiskNext ==
    \/ \E t \in DiskTerms, p \in RegPaths, fail \in Fails : RegisterNoteReference(t, p, fail)
    \/ ClearMemory
    \/ Restart

SpecDisk == Init /\ [][DiskNext]_vars

\* ------------------------------------------------------ claims on the store
\* C4: after a register_note_reference whose save wrote every file, an
\* AgentMemory constructed over the same directory resolves the term to the
\* registered path and holds the same usage_count for that reference.
C4_AliasesSurviveRestart ==
    (last.op = "register" /\ last.saved) =>
        /\ ResolveNoteReference(LoadMemory(disk), last.term).path = last.path
        /\ UsageOf(LoadMemory(disk).note_references, last.path, Clean(last.term))
             = UsageOf(note_references, last.path, Clean(last.term))
        /\ UsageOf(note_references, last.path, Clean(last.term)) > 0

\* a second registration saved after an earlier save had failed
C4_Witness ==
    /\ last.op = "register" /\ last.saved /\ faults > 0
    /\ UsageOf(LoadMemory(disk).note_references, last.path, Clean(last.term)) = 2

\* C5: whatever happens to the save of a register_note_reference, the
\* directory afterwards is loadable and holds either the complete state before
\* the call or the complete state after it.
C5_AtomicPersist ==
    last.op = "register" => last.persisted \in {"before", "after"}

\* a failed save that left some files rewritten, none of them corrupt
C5_Witness ==
    last.op = "register" /\ last.persisted = "mixed"

\* C10: each registration of a (term, path) leaves exactly one reference for
\* the pair, with usage_count one more than before (1 after the first, 2 after
\* the second), and the term resolves to the path.
C10_RegisterCounts ==
    last.op = "register" =>
        /\ Cardinality(RefHits(note_references, last.path, Clean(last.term))) = 1
        /\ UsageOf(note_references, last.path, Clean(last.term)) = last.usage_before + 1
        /\ ResolveNoteReference(Mem, last.term).path = last.path

\* the second registration of a pair
C10_Witness ==
    /\ last.op = "register" /\ last.usage_before = 1
    /\ UsageOf(note_references, last.path, Clean(last.term)) = 2

\* ------------------------------------------ operations of the context
FocusNotes == {NoteA, NoteB}

OpTypes ==
    {"create_note", "open_note", "edit_note", "insert_section", "append_section",
     "open_notes", "read_note"}

CtxTerms ==
    Pronouns \cup {S_It, S_i_created, S_opened, S_current, S_abc, S_abx, S_zzz}

EntityNames == {S_AbX}

\* update_focus(note_name, operation_type)
UpdateFocus(note_name, operation_type) ==
    /\ SetCtx(UpdateFocusOf(Ctx, note_name, operation_type))
    /\ last' = [op |-> "update_focus", note |-> note_name, kind |-> operation_type]
    /\ UNCHANGED <<memvars, disk, faults, toolvars>>

\* resolve_reference(reference)
ContextResolve(reference) ==
    LET r == ContextResolveReference(Ctx, Mem, reference)
    IN /\ last' = [op |-> "ctx_resolve", term |-> reference, path |-> r.path,
                   rule |-> r.rule]
       /\ UNCHANGED <<memvars, disk, faults, ctxvars, toolvars>>

\* ConversationContext.register_entity(entity_name, related_notes) and the
\* AgentMemory.register_entity it calls
ContextRegisterEntity(entity_name, related_notes) ==
    LET entity_clean == Strip(entity_name)
        old == IF DictHas(current_session_entities, entity_clean)
               THEN SeqSet(DictGet(current_session_entities, entity_clean)) ELSE {}
        known == IF entity_clean \in DOMAIN entities THEN entities[entity_clean] ELSE {}
        m == [Mem EXCEPT !.entities = (entity_clean :> (known \cup related_notes)) @@ @]
    IN /\ old \cup related_notes # old \/ ~DictHas(current_session_entities, entity_clean)
       /\ \E q \in Perms(old \cup related_notes) :
            current_session_entities' = DictPut(current_session_entities, entity_clean, q)
       /\ SetMem(m)
       /\ disk' = SaveMemory(m, disk, NoFail)
       /\ last' = [op |-> "register_entity", entity |-> entity_clean]
       /\ UNCHANGED <<current_focus, last_created_note, last_modified_note,
                      last_opened_notes, conversation_history, faults, toolvars>>

CtxNext ==
    \/ \E n \in FocusNotes, k \in OpTypes : UpdateFocus(n, k)
    \/ \E t \in CtxTerms : ContextResolve(t)
    \/ RegisterNoteReference(S_abc, NoteA, NoFail)
    \/ \E ns \in SUBSET FocusNotes : ContextRegisterEntity(S_AbX, ns)

SpecCtx == Init /\ [][CtxNext]_vars

\* -------------------------------------------------- claims on the context
\* C6: for a reference that is "it", "that", "this" or "the note" once
\* lowercased and trimmed, resolve_reference returns the first that is set of
\* current_focus, last_modified_note, last_created_note, and None only when
\* none of the three is set.
C6_PronounCascade ==
    (last.op = "ctx_resolve" /\ Clean(last.term) \in Pronouns) =>
        last.path = IF current_focus # None THEN current_focus
                    ELSE IF last_modified_note # None THEN last_modified_note
                    ELSE last_created_note

\* no focus yet and B modified: the pronoun gives B
C6_Witness ==
    /\ last.op = "ctx_resolve" /\ last.term = S_It
    /\ current_focus = None /\ last_modified_note = NoteB /\ last.path = NoteB

\* C7: update_focus(d, kind) sets current_focus and last_created_note to d for
\* a create, and current_focus and last_modified_note to d for an edit, an
\* insert or an append.
C7_UpdateFocusMapping ==
    last.op = "update_focus" =>
        /\ last.kind = "create_note" =>
              current_focus = last.note /\ last_created_note = last.note
        /\ last.kind \in {"edit_note", "insert_section", "append_section"} =>
              current_focus = last.note /\ last_modified_note = last.note

\* an insert into B while the focus is A
C7_Witness ==
    /\ last.op = "update_focus" /\ last.kind = "insert_section" /\ last.note = NoteB
    /\ current_focus = NoteA /\ last_modified_note = NoteB

\* the steps of _resolve_note_with_fallback that may raise an Exception:
\* resolve_note_reference, resolve_reference, the listing of the notes, input()
ResolveFaults == {"memory", "context", "listing", "prompt"}

\* whether the run that gets as far as `pre` without a fault executes the step
StepReached(pre, fault) ==
    \/ fault = "memory"
    \/ fault = "context" /\ pre.source # "memory"
    \/ fault = "listing" /\ pre.source \in {"ask", "not_found"}
    \/ fault = "prompt" /\ pre.source = "ask"

\* the try block of _resolve_note_with_fallback when the step raises: the
\* listing catches its own exceptions and gives no notes, the others propagate
TryBlockFaulted(pre, fault) ==
    IF fault = "listing"
    THEN [raised |-> FALSE, path |-> None, source |-> "not_found"]
    ELSE [raised |-> TRUE, path |-> None, source |-> fault]

\* a function without the except clause
ExceptNothing(out) == out

\* except Exception as e: ... return None
ExceptReturnNone(out) ==
    IF out.raised THEN [raised |-> FALSE, path |-> None, source |-> "error"] ELSE out

\* ------------------------------------------------ operations of the cascade
ResolveTerms == {S_empty, S_blank, S_it, S_abc, S_ab, S_abx, S_zzz}

ManualNames == {S_empty, S_zzz}

Vaults == {{NoteA, NoteB}, {NoteB}}

\* what is typed when nothing is asked
NoAnswer == [number |-> 0, manual |-> S_empty]

\* the rest of _resolve_note_with_fallback(name) after the run `pre` up to the
\* prompt, no step raising; the user types `choice` when asked
ResolveUnfaulted(name, pre) ==
    \E choice \in IF pre.source = "ask" THEN Choices(ManualNames) ELSE {NoAnswer} :
    \E out \in {ResolveNoteSelected(pre, choice)} :
        /\ out.mem # Mem =>
              UsageOf(note_references, out.path, Clean(name)) < MaxUsage
        /\ SetMem(out.mem)
        /\ disk' = out.disk
        /\ last' = [op |-> "resolve", term |-> name, path |-> out.path,
                    source |-> out.source, how |-> out.how, trace |-> out.trace,
                    prompted |-> out.prompted,
                    changed |-> (out.mem # Mem \/ out.disk # disk),
                    chosen_before |->
                        IF last.op = "resolve" /\ last.term = name
                             /\ last.source = "prompt" /\ last.how = "doc_similar"
                        THEN last.path ELSE None]
        /\ UNCHANGED <<faults, ctxvars, toolvars>>

\* _resolve_note_with_fallback(name) in which one of the steps that the run
\* `pre` reaches raises
ResolveFaulted(name, pre) ==
    \E fault \in ResolveFaults :
    \E out \in {ExceptReturnNone(TryBlockFaulted(pre, fault))} :
        /\ StepReached(pre, fault)
        /\ last' = [op |-> "resolve_faulted", term |-> name, fault |-> fault,
                    raised |-> out.raised, path |-> out.path, source |-> out.source]
        /\ UNCHANGED <<memvars, disk, faults, ctxvars, toolvars>>

\* _resolve_note_with_fallback(name)
Resolve(name) ==
    \E pre \in {ResolveNoteWithFallback(Mem, Ctx, vault, disk, name)} :
        \/ ResolveUnfaulted(name, pre)
        \/ ResolveFaulted(name, pre)

ResolveNext ==
    \/ \E t \in ResolveTerms : Resolve(t)
    \/ RegisterNoteReference(S_abc, NoteA, NoFail)
    \/ UpdateFocus(NoteA, "create_note")
    \/ UpdateFocus(NoteB, "insert_section")
    \/ ContextRegisterEntity(S_q, {NoteB})

ResolveInit == \E v \in Vaults : InitWith(v)

SpecResolve == ResolveInit /\ [][ResolveNext]_vars

\* -------------------------------------------------- claims on the cascade
\* C1: when the resolution of a term ended with the user selecting a suggested
\* note at the prompt, the next resolution of the same term returns that note
\* from the memory stage, without a prompt.
C1_LearningClosesLoop ==
    (last.op = "resolve" /\ last.chosen_before # None) =>
        /\ last.path = last.chosen_before
        /\ last.source = "memory"
        /\ ~last.prompted

\* the user selected abc.md for "abx" and is asked again for "abx"
C1_Witness ==
    /\ last.op = "resolve" /\ last.term = S_abx /\ last.chosen_before = NoteA
    /\ last.prompted

\* C2: a resolution that returns a note found by similarity scoring only, in
\* whichever stage, has prompted the user.
C2_NoFuzzyWithoutConfirmation ==
    (last.op = "resolve" /\ last.path # None /\ last.how \in {"similar", "doc_similar"}) =>
        last.prompted /\ last.source = "prompt"

\* "ab" answered from the alias "abc" by the memory stage without a prompt
C2_Witness ==
    /\ last.op = "resolve" /\ last.term = S_ab /\ last.how = "similar"
    /\ last.source = "memory" /\ last.path = NoteA /\ ~last.prompted

\* C3: the resolution of an empty or whitespace-only name returns no note,
\* consults no stage and changes nothing.
C3_EmptyRejected ==
    (last.op = "resolve" /\ Strip(last.term) = <<>>) =>
        /\ last.path = None
        /\ last.trace = <<>>
        /\ ~last.prompted
        /\ ~last.changed

\* the empty name answered from the entity table and registered as an alias
C3_Witness ==
    /\ last.op = "resolve" /\ last.term = S_empty
    /\ last.path = NoteB /\ last.source = "context" /\ last.changed
    /\ DictHas(user_aliases, S_empty)

\* C9: the stages consulted are an initial part of memory, context, direct
\* path, fuzzy matching in this order; every stage before the last consulted
\* one gave no existing note; a stage that gives one is the last consulted and
\* its note is the one returned.
StageOrder == <<"memory", "context", "direct", "fuzzy">>

C9_CascadeOrder ==
    last.op = "resolve" =>
        /\ Len(last.trace) \in 1..Len(StageOrder)
        /\ \A i \in 1..Len(last.trace) :
              /\ last.trace[i].stage = StageOrder[i]
              /\ last.trace[i].ok => i = Len(last.trace) /\ last.path = last.trace[i].result
              /\ i < Len(last.trace) => ~last.trace[i].ok
        /\ last.path # None => last.trace[Len(last.trace)].ok
        /\ (last.source = "memory") = (Len(last.trace) = 1)
        /\ (last.source = "context") = (Len(last.trace) = 2)

\* a pronoun with a focus set and an alias "it" registered for another note:
\* the memory answers and the context is not asked
C9_Witness ==
    /\ last.op = "resolve" /\ last.term = S_it /\ last.source = "memory"
    /\ Len(last.trace) = 1
    /\ current_focus # None /\ current_focus # last.path

\* ------------------------------------------------------ the command pipeline
\* _get_note_path(name): the path relative to the vault; the name is not empty
GetNotePath(name) == SafeName(name)

\* the data of a result: note_name, note_path and note are None when the dict
\* has no such key; mentions_note is "note" in str(result.data)
Result(tool, success, note_name, note_path, note, mentions_note) ==
    [tool |-> tool, success |-> success, note_name |-> note_name,
     note_path |-> note_path, note |-> note, mentions_note |-> mentions_note]

Failure(tool) == Result(tool, FALSE, None, None, None, FALSE)

\* an execute_tool_call that dispatches whatever the count is
ExecuteToolCallNoLimit(v, count, tool_call) ==
    LET tool == tool_call.tool_call
        rel == GetNotePath(tool_call.name)
        out(r, w) == [result |-> r, vault |-> w, count |-> count + 1]
    IN IF tool = "create_note"
       THEN IF Exists(v, rel) THEN out(Failure(tool), v)
            ELSE out(Result(tool, TRUE, tool_call.name, rel, None, TRUE), v \cup {rel})
       ELSE IF tool = "delete_note"
       THEN IF ~Exists(v, rel) THEN out(Failure(tool), v)
            ELSE out(Result(tool, TRUE, tool_call.name, rel, None, TRUE), v \ {rel})
       ELSE out(Result(tool, TRUE, None, None, None, TRUE), v)

\* execute_tool_call(tool_call) on the vault v with tool_call_count = count:
\* [result, vault, count]
ExecuteToolCall(v, count, tool_call) ==
    LET tool == tool_call.tool_call
        rel == GetNotePath(tool_call.name)
        out(r, w) == [result |-> r, vault |-> w, count |-> count + 1]
    IN IF count + 1 > MaxToolCalls THEN out(Failure(tool), v)
       ELSE IF tool = "create_note"
       THEN IF Exists(v, rel) THEN out(Failure(tool), v)
            ELSE out(Result(tool, TRUE, tool_call.name, rel, None, TRUE), v \cup {rel})
       ELSE IF tool = "delete_note"
       THEN IF ~Exists(v, rel) THEN out(Failure(tool), v)
            ELSE out(Result(tool, TRUE, tool_call.name, rel, None, TRUE), v \ {rel})
       ELSE out(Result(tool, TRUE, None, None, None, TRUE), v)

\* a result as kept in last_command_results, with the tool_call_count the call
\* left and the vault before and after it
Executed(r, v) ==
    r.result @@ [count |-> r.count, vault_before |-> v, vault_after |-> r.vault]

\* execute_tool_calls from call i on: decisions[i] is the answer to "Execute
\* this operation?", go_on the answer to "Continue with remaining operations?"
RECURSIVE ExecuteToolCalls(_, _, _, _, _, _, _)
ExecuteToolCalls(v, count, tool_calls, decisions, go_on, i, results) ==
    IF i > Len(tool_calls) THEN [results |-> results, vault |-> v, count |-> count]
    ELSE IF ~decisions[i]
    THEN ExecuteToolCalls(v, count, tool_calls, decisions, go_on, i + 1, results)
    ELSE CHOOSE res \in
           {IF ~r.result.success /\ Len(tool_calls) > 1 /\ i < Len(tool_calls) /\ ~go_on
            THEN [results |-> Append(results, Executed(r, v)), vault |-> r.vault,
                  count |-> r.count]
            ELSE ExecuteToolCalls(r.vault, r.count, tool_calls, decisions, go_on,
                                  i + 1, Append(results, Executed(r, v))) :
              r \in {ExecuteToolCall(v, count, tool_calls[i])}} : TRUE

\* the registrations of the terms refs[i..] for resolved_path, each with its save
RECURSIVE RegisterAll(_, _, _, _)
RegisterAll(md, refs, i, resolved_path) ==
    IF i > Len(refs) THEN md
    ELSE CHOOSE res \in
           {RegisterAll([mem |-> m2, disk |-> SaveMemory(m2, md.disk, NoFail)],
                        refs, i + 1, resolved_path) :
              m2 \in {RegisterInMemory(md.mem, refs[i], resolved_path)}} : TRUE

\* result.data.get("note_name") or .get("note_path") or .get("note")
ResolvedNote(result) == Or3(result.note_name, result.note_path, result.note)

\* learn_from_interaction(user_input, tool_call, result) on st = [mem, disk,
\* ctx, focus_calls]; the sentence is given by what the extractors find in it
LearnFromInteraction(st, transcript, tool_call, result) ==
    IF result.success /\ result.mentions_note /\ Truthy(ResolvedNote(result))
    THEN CHOOSE res \in
           {[mem |-> md.mem,
             disk |-> SaveMemory(md.mem, md.disk, NoFail),
             ctx |-> UpdateFocusOf(st.ctx, ResolvedNote(result), tool_call.tool_call),
             focus_calls |-> Append(st.focus_calls,
                                    [note |-> ResolvedNote(result),
                                     kind |-> tool_call.tool_call])] :
              md \in {RegisterAll([mem |-> st.mem, disk |-> st.disk],
                                  transcript.tool_refs, 1, ResolvedNote(result))}} : TRUE
    ELSE st

\* the loop of process_command over the tool calls and the results at the same
\* index, from index i on (1-based)
RECURSIVE LearnLoop(_, _, _, _, _)
LearnLoop(st, transcript, tool_calls, results, i) ==
    IF i > Len(tool_calls) THEN st
    ELSE IF i <= Len(results) /\ results[i].success
    THEN CHOOSE res \in
           {LearnLoop(st2, transcript, tool_calls, results, i + 1) :
              st2 \in {LearnFromInteraction(st, transcript, tool_calls[i], results[i])}} : TRUE
    ELSE LearnLoop(st, transcript, tool_calls, results, i + 1)

\* resolved_notes of process_command: the note names of the successful results
\* that have a tool call at their index
RECURSIVE ResolvedNotes(_, _, _)
ResolvedNotes(tool_calls, results, i) ==
    IF i > Len(tool_calls) \/ i > Len(results) THEN <<>>
    ELSE IF results[i].success /\ Truthy(ResolvedNote(results[i]))
    THEN <<ResolvedNote(results[i])>> \o ResolvedNotes(tool_calls, results, i + 1)
    ELSE ResolvedNotes(tool_calls, results, i + 1)

\* add_conversation_turn: the registrations for resolved_notes[i..]
RECURSIVE AddConversationTurn(_, _, _, _)
AddConversationTurn(md, turn_refs, resolved_notes, i) ==
    IF i > Len(resolved_notes) THEN md
    ELSE CHOOSE res \in
           {AddConversationTurn(md2, turn_refs, resolved_notes, i + 1) :
              md2 \in {RegisterAll(md, turn_refs, 1, resolved_notes[i])}} : TRUE

\* no usage_count of the memory is above the bound
UsageBounded(m) ==
    \A p \in DOMAIN m.note_references : \A i \in 1..Len(m.note_references[p]) :
        m.note_references[p][i].usage_count <= MaxUsage

\* the tool calls the language model answers with
CmdCalls ==
    {[tool_call |-> "create_note", name |-> S_abc],
     [tool_call |-> "delete_note", name |-> S_abc],
     [tool_call |-> "list_notes", name |-> None]}

CallLists == UNION {[1..n -> CmdCalls] : n \in 1..MaxCalls}

\* what _extract_user_note_references (tool_refs) and _extract_note_references
\* (turn_refs) find in the sentences `ls` and `"abc"`
Transcripts ==
    {[tool_refs |-> <<>>, turn_refs |-> <<>>],
     [tool_refs |-> <<S_abc>>, turn_refs |-> <<S_abc>>]}

\* the check of run_session after a command: the loop ends
SessionLimitReached(count) == count >= MaxToolCalls

\* One round of the loop of run_session: process_command(transcript) from the
\* preview of the planned tool calls on, and the check of the session limit.
\* No further round follows one that ended the loop.
ProcessCommand(transcript, tool_calls, approved, decisions, go_on) ==
    /\ last.op = "command" => ~last.ended
    /\ approved => Len(conversation_history) < MaxCommands
    /\ \E ex \in {IF approved
                  THEN ExecuteToolCalls(vault, tool_call_count, tool_calls, decisions,
                                        go_on, 1, <<>>)
                  ELSE [results |-> <<>>, vault |-> vault, count |-> tool_call_count]} :
       \E st \in {IF \E i \in 1..Len(ex.results) : ex.results[i].success
                  THEN LearnLoop([mem |-> Mem, disk |-> disk, ctx |-> Ctx,
                                  focus_calls |-> <<>>],
                                 transcript, tool_calls, ex.results, 1)
                  ELSE [mem |-> Mem, disk |-> disk, ctx |-> Ctx, focus_calls |-> <<>>]} :
       \E md \in {IF \E i \in 1..Len(ex.results) : ex.results[i].success
                  THEN AddConversationTurn([mem |-> st.mem, disk |-> st.disk],
                                           transcript.turn_refs,
                                           ResolvedNotes(tool_calls, ex.results, 1), 1)
                  ELSE [mem |-> st.mem, disk |-> st.disk]} :
          /\ UsageBounded(md.mem)
          /\ SetMem(md.mem)
          /\ disk' = md.disk
          /\ SetCtx([st.ctx EXCEPT !.conversation_history =
                    IF ~approved THEN @
                    ELSE AppendTurn(@, Turn(@,
                           IF \E i \in 1..Len(ex.results) : ex.results[i].success
                           THEN ResolvedNotes(tool_calls, ex.results, 1)
                           ELSE <<>>))])
          /\ vault' = ex.vault
          /\ tool_call_count' = ex.count
          /\ last' = [op |-> "command", tool_calls |-> tool_calls,
                      results |-> ex.results, focus_calls |-> st.focus_calls,
                      count_before |-> tool_call_count,
                      ended |-> SessionLimitReached(ex.count)]
    /\ UNCHANGED <<faults, writers>>

CmdNext ==
    \/ \E t \in Transcripts, tc \in CallLists, approved \in BOOLEAN, go_on \in BOOLEAN :
         \E decisions \in [1..Len(tc) -> BOOLEAN] :
            ProcessCommand(t, tc, approved, decisions, go_on)
    \/ Restart

SpecCmd == Init /\ [][CmdNext]_vars

\* ------------------------------------------------- claims on the pipeline
\* the successful results of a command, in order
Successes(results) == SelectSeq(results, LAMBDA r : r.success)

\* C8: a command calls update_focus once for each of its successful tool
\* executions, in their order, with the note and the tool of that execution.
C8_FocusPerExecution ==
    last.op = "command" =>
        /\ Len(last.focus_calls) = Len(Successes(last.results))
        /\ \A k \in 1..Len(last.focus_calls) :
              /\ last.focus_calls[k].kind = Successes(last.results)[k].tool
              /\ last.focus_calls[k].note = Successes(last.results)[k].note_name

\* a command of one list_notes that succeeded and called update_focus never
C8_Witness ==
    /\ last.op = "command" /\ Len(last.results) = 1
    /\ last.results[1].success /\ last.results[1].tool = "list_notes"
    /\ last.focus_calls = <<>>

\* ------------------------------------------- more claims on the store
\* C11: terms that differ only in letter case or in leading and trailing
\* whitespace resolve to the same result; every alias key is in normalized
\* form and occurs once, also after the registration of such a variant.
C11_NormalizationInvariance ==
    /\ \A t1 \in AskTerms, t2 \in AskTerms :
          Clean(t1) = Clean(t2) =>
              ResolveNoteReference(Mem, t1) = ResolveNoteReference(Mem, t2)
    /\ \A i \in 1..Len(user_aliases), j \in 1..Len(user_aliases) :
          /\ Clean(user_aliases[i][1]) = user_aliases[i][1]
          /\ user_aliases[i][1] = user_aliases[j][1] => i = j
    /\ last.op = "register" =>
          Cardinality({i \in 1..Len(user_aliases) :
                          user_aliases[i][1] = Clean(last.term)}) = 1

\* "Abc " registered for a path that had a reference "abc": one alias "abc",
\* one reference counted twice, and "abc" resolves to the path
C11_Witness ==
    /\ last.op = "register" /\ last.term = S_Abc /\ last.usage_before = 1
    /\ Len(user_aliases) = 1 /\ user_aliases[1][1] = S_abc
    /\ ResolveNoteReference(Mem, S_abc).path = last.path
    /\ UsageOf(note_references, last.path, S_abc) = 2

\* C12: resolve_note_reference returns a path exactly when the normalized
\* term is a key of the aliases, then the path of that key, and None for every
\* other term.
C12_ExactLookupOnly ==
    last.op = "mem_resolve" =>
        IF DictHas(user_aliases, Clean(last.term))
        THEN last.path = DictGet(user_aliases, Clean(last.term))
        ELSE last.path = None

\* "ab" is no alias and resolves to the path of the alias "abc"
C12_Witness ==
    /\ last.op = "mem_resolve" /\ last.term = S_ab
    /\ ~DictHas(user_aliases, S_ab) /\ DictHas(user_aliases, S_abc)
    /\ last.path = DictGet(user_aliases, S_abc)

\* the aliases a term is a misspelling of: similarity at least 0.8, or one of
\* the two containing the other
Misspelled(term) ==
    {i \in 1..Len(user_aliases) :
        \/ RLeq(Threshold, Ratio(Clean(term), user_aliases[i][1]))
        \/ Contains(Clean(term), user_aliases[i][1])
        \/ Contains(user_aliases[i][1], Clean(term))}

BestAlias(term) ==
    CHOOSE i \in Misspelled(term) :
        \A j \in Misspelled(term) :
            \/ RLess(AliasScore(Clean(term), user_aliases[j][1]),
                     AliasScore(Clean(term), user_aliases[i][1]))
            \/ /\ RLeq(AliasScore(Clean(term), user_aliases[j][1]),
                       AliasScore(Clean(term), user_aliases[i][1]))
               /\ i <= j

C15_LastOpenedRecentFirst ==
    /\ Len(last_opened_notes) <= LastOpenedCap
    /\ \A i \in 1..Len(last_opened_notes), j \in 1..Len(last_opened_notes) :
          last_opened_notes[i] = last_opened_notes[j] => i = j
    /\ (last.op = "update_focus" /\ last.kind \in {"open_note", "open_notes"}) =>
          last_opened_notes # <<>> /\ last_opened_notes[1] = last.note

\* A opened again after B: A stays behind B
C15_Witness ==
    /\ last.op = "update_focus" /\ last.kind = "open_note" /\ last.note = NoteA
    /\ last_opened_notes = <<NoteB, NoteA>>

\* ------------------------------------------- the history of the context
\* add_conversation_turn(user_input, assistant_response, tool_calls,
\* resolved_notes); the sentence is given by what the extractors find in it
ContextAddTurn(transcript, resolved_notes) ==
    /\ NextStamp(conversation_history) <= MaxTurns
    /\ \E md \in {AddConversationTurn([mem |-> Mem, disk |-> disk],
                                      transcript.turn_refs, resolved_notes, 1)} :
          /\ UsageBounded(md.mem)
          /\ SetMem(md.mem)
          /\ disk' = md.disk
    /\ conversation_history' =
          AppendTurn(conversation_history, Turn(conversation_history, resolved_notes))
    /\ last' = [op |-> "add_turn", resolved_notes |-> resolved_notes,
                stamp |-> NextStamp(conversation_history)]
    /\ UNCHANGED <<current_focus, last_created_note, last_modified_note,
                   last_opened_notes, current_session_entities, faults, toolvars>>

HistTerms == {S_it, S_that_note, S_the_note_I_just_created}

HistNext ==
    \/ \E t \in Transcripts : ContextAddTurn(t, <<NoteA>>)
    \/ \E t \in HistTerms : ContextResolve(t)
    \/ UpdateFocus(NoteB, "create_note")

SpecHist == Init /\ [][HistNext]_vars

\* C14: when the latest turn of the history has the resolved notes [N],
\* resolve_reference of "it", of "that note" and of "the note I just created"
\* returns N.
C14_TurnSetsReferences ==
    (/\ last.op = "ctx_resolve" /\ last.term \in HistTerms
     /\ conversation_history # <<>>
     /\ Len(conversation_history[Len(conversation_history)].resolved_notes) = 1) =>
        last.path = conversation_history[Len(conversation_history)].resolved_notes[1]

\* after a turn for abc.md on a new context "it" resolves to nothing
C14_Witness ==
    /\ last.op = "ctx_resolve" /\ last.term = S_it /\ last.path = None
    /\ Len(conversation_history) = 1
    /\ conversation_history[1].resolved_notes = <<NoteA>>

\* C20: the history holds at most max_history turns, and after n turns it
\* holds the latest min(n, max_history) of them in the order they arrived.
C20_HistoryRingBuffer ==
    /\ Len(conversation_history) <= max_history
    /\ \A i \in 1..Len(conversation_history) - 1 :
          conversation_history[i + 1].timestamp = conversation_history[i].timestamp + 1
    /\ last.op = "add_turn" =>
          /\ Len(conversation_history) = Min(last.stamp, max_history)
          /\ conversation_history[Len(conversation_history)].timestamp = last.stamp

\* 25 turns: the history holds the turns 6 to 25
C20_Witness ==
    /\ last.op = "add_turn" /\ last.stamp = max_history + 5
    /\ Len(conversation_history) = max_history
    /\ conversation_history[1].timestamp = 6

C17_CorruptLoadsEmpty ==
    (last.op = "restart" /\ \E f \in Files : disk[f] = Corrupt) => Mem = EmptyMem

\* constructed over a corrupt user_aliases.json: the references of
\* note_references.json are loaded, the aliases are not
C17_Witness ==
    /\ last.op = "restart" /\ disk["user_aliases"] = Corrupt
    /\ note_references # <<>> /\ user_aliases = <<>>

\* C18: a register_note_reference whose save failed has returned, and the
\* memory holds the registration: the alias is a key with the registered
\* path, the term resolves to it by the alias, and the reference is counted.
C18_FailedSaveKeepsMemory ==
    (last.op = "register" /\ ~last.saved) =>
        /\ DictHas(user_aliases, Clean(last.term))
        /\ ResolveNoteReference(Mem, last.term) = [path |-> last.path, how |-> "alias"]
        /\ UsageOf(note_references, last.path, Clean(last.term)) = last.usage_before + 1

\* the save of the first registration failed at its first file: nothing of it
\* is on disk, the alias resolves
C18_Witness ==
    /\ last.op = "register" /\ ~last.saved /\ last.usage_before = 0
    /\ disk = [f \in Files |-> Missing]
    /\ ResolveNoteReference(Mem, last.term).path = last.path

\* ----------------------------------------------- more claims on the store
\* the usage_count of the alias `key`: that of the reference under the path
\* the alias gives
AliasUsage(refs, aliases, key) == UsageOf(refs, DictGet(aliases, key), key)

\* C19: over a register_note_reference, with whatever path, the usage_count
\* of no alias that was there before decreases.
C19_UsageNeverDecreases ==
    [][last'.op = "register" =>
          \A key \in {Clean(t) : t \in RegTerms} :
              DictHas(user_aliases, key) =>
                  /\ DictHas(user_aliases', key)
                  /\ AliasUsage(note_references', user_aliases', key)
                       >= AliasUsage(note_references, user_aliases, key)]_vars

\* an alias used twice for one path was registered for another: its
\* usage_count is 1, the reference under the former path still holds 2
C19_Witness ==
    /\ last.op = "register" /\ last.usage_before = 0
    /\ AliasUsage(note_references, user_aliases, Clean(last.term)) = 1
    /\ \E p \in RegPaths :
          p # last.path /\ UsageOf(note_references, p, Clean(last.term)) = 2

\* ------------------------------------------------- two processes, one store
\* register_note_reference(user_term, resolved_path) in process w, up to the
\* call of _save_memory
WriterRegister(w, user_term, resolved_path) ==
    /\ ~writers[w].saving
    /\ UsageOf(writers[w].mem.note_references, resolved_path, Clean(user_term)) < MaxUsage
    /\ writers' = [writers EXCEPT ![w] =
          [mem |-> RegisterInMemory(writers[w].mem, user_term, resolved_path),
           saving |-> TRUE, at |-> 0]]
    /\ last' = [op |-> "writer_register", writer |-> w]
    /\ UNCHANGED <<memvars, disk, faults, ctxvars, vault, tool_call_count>>

\* _save_memory of process w writes its next file: open(.., 'w') and json.dump
WriterWriteFile(w) ==
    /\ writers[w].saving
    /\ disk' = [disk EXCEPT ![FileNames[writers[w].at + 1]] =
                   DumpOf(writers[w].mem, FileNames[writers[w].at + 1])]
    /\ writers' = [writers EXCEPT ![w].at = @ + 1,
                                  ![w].saving = (writers[w].at + 1 < Len(FileNames))]
    /\ last' = [op |-> "writer_write", writer |-> w,
                done |-> (writers[w].at + 1 = Len(FileNames))]
    /\ UNCHANGED <<memvars, faults, ctxvars, vault, tool_call_count>>

WriterNext ==
    \/ \E w \in Writers, t \in DiskTerms, p \in RegPaths : WriterRegister(w, t, p)
    \/ \E w \in Writers : WriterWriteFile(w)

SpecWriters == Init /\ [][WriterNext]_vars

\* C21: when the last running save of the processes has ended, the directory
\* holds the complete state one process wrote: every file is the dump of
\* that one process's memory.
C21_LastWriterWins ==
    (last.op = "writer_write" /\ last.done /\ \A w \in Writers : ~writers[w].saving) =>
        \E w \in Writers : \A f \in Files : disk[f] = DumpOf(writers[w].mem, f)

\* both saves have ended; note_references.json is the one of process 2 and
\* user_aliases.json the one of process 1, and the two differ between them
C21_Witness ==
    /\ last.op = "writer_write" /\ last.done /\ \A w \in Writers : ~writers[w].saving
    /\ disk["note_references"] = DumpOf(writers[2].mem, "note_references")
    /\ disk["user_aliases"] = DumpOf(writers[1].mem, "user_aliases")
    /\ writers[1].mem.note_references # writers[2].mem.note_references
    /\ writers[1].mem.user_aliases # writers[2].mem.user_aliases

\* ------------------------------------------------------ the fuzzy matcher
\* target names and note names the matcher is applied to
S_a_b == <<"a", " ", "b">>
S_a_slash_b == <<"a", "/", "b">>
S_ab_ab == <<"a", "b", " ", "a", "b">>
S_a_q == <<"a", " ", "q">>
S_b == <<"b">>

ScoreTargets == {S_ab, S_a_b, S_a_slash_b, S_ab_ab, S_abc, S_a_q, S_b}

Note_ab == S_ab \o DotMd
Note_ab_ba == <<"a", "b", "-", "b", "a">> \o DotMd
Note_b_a == <<"b", "-", "a">> \o DotMd
Note_ab_ab == <<"a", "b", "-", "a", "b">> \o DotMd
Note_a_b_c == <<"a", " ", "b", " ", "c">> \o DotMd
Note_a_a_a == <<"a", "-", "a", "-", "a">> \o DotMd
Note_zzz == S_zzz \o DotMd

ScoreNotes ==
    {NoteA, NoteB, Note_ab, Note_ab_ba, Note_b_a, Note_ab_ab, Note_a_b_c,
     Note_a_a_a, Note_zzz}

\* the lists of notes: every order of every three notes of a pool, and one
\* list longer than the default number of suggestions
ListPool == {NoteA, Note_ab, Note_ab_ba, Note_a_b_c, Note_zzz}

LongList ==
    <<Note_zzz, Note_ab_ba, NoteA, Note_b_a, Note_ab, Note_a_b_c, Note_ab_ab, NoteB>>

NoteLists ==
    {LongList} \cup
    UNION {Perms(S) : S \in {T \in SUBSET ListPool : Cardinality(T) = 3}}

\* The matcher is a function of its arguments: each behaviour applies it once.
\* the iteration of _fallback_simple_matching for one note
ScoreNote(target_name, note) ==
    /\ last.op = "init"
    /\ \E sc \in {SimpleScore(target_name, note)} :
          last' = [op |-> "score", target |-> target_name, note |-> note, score |-> sc]
    /\ UNCHANGED <<memvars, disk, faults, ctxvars, toolvars>>

\* _fallback_simple_matching(target_name, all_notes, max_suggestions)
MatchNotes(target_name, all_notes, max_suggestions) ==
    /\ last.op = "init"
    /\ \E out \in {FallbackSimpleMatching(target_name, all_notes, max_suggestions)} :
          last' = [op |-> "match", target |-> target_name, all_notes |-> all_notes,
                   max_suggestions |-> max_suggestions, out |-> out]
    /\ UNCHANGED <<memvars, disk, faults, ctxvars, toolvars>>

ScoreNext ==
    \/ \E t \in ScoreTargets, n \in ScoreNotes : ScoreNote(t, n)
    \/ \E t \in ScoreTargets, l \in NoteLists, k \in 1..MaxSuggestions : MatchNotes(t, l, k)

SpecScore == Init /\ [][ScoreNext]_vars

One == <<1, 1>>

\* C22: the confidence of every candidate the matcher keeps is at least 0 and
\* at most 1.
C22_ConfidenceInUnitInterval ==
    (last.op = "score" /\ last.score.kept) =>
        RLeq(<<0, 1>>, last.score.confidence) /\ RLeq(last.score.confidence, One)

\* 'a/b' against 'b-a.md': both words match and the folder bonus is added
C22_Witness ==
    /\ last.op = "score" /\ last.target = S_a_slash_b /\ last.note = Note_b_a
    /\ last.score.kept
    /\ RLeq(<<13, 10>>, last.score.confidence) /\ RLeq(last.score.confidence, <<13, 10>>)

\* C23: of the notes of one list, one whose name contains the target as a
\* substring has a confidence at least that of every kept note that neither
\* contains the target nor is contained in it and shares words with it only
\* in part.
C23_SubstringScoresHighest ==
    last.op = "match" =>
        \A i, j \in 1..Len(last.all_notes) :
            LET si == SimpleScore(last.target, last.all_notes[i])
                sj == SimpleScore(last.target, last.all_notes[j])
            IN (/\ si.rule = "contains"
                /\ sj.rule = "scored" /\ sj.kept
                /\ sj.word_matches = 0 /\ sj.partial_halves > 0)
               => RLeq(sj.confidence, si.confidence)

\* 'a b' over a list with 'a b c.md' (0.95) and 'ab-ba.md': no word of the
\* latter equals a word of the target, four contain one, confidence 1.0, and
\* 'ab-ba.md' is suggested first
C23_Witness ==
    /\ last.op = "match" /\ last.target = S_a_b
    /\ Len(last.out) >= 2
    /\ last.out[1].note = Note_ab_ba /\ last.out[2].note = Note_a_b_c
    /\ SimpleScore(S_a_b, Note_ab_ba).word_matches = 0
    /\ RLess(ExactContains, last.out[1].confidence)

\* the place of a note in a list of distinct notes
IndexOf(q, x) == CHOOSE i \in 1..Len(q) : q[i] = x

\* C24: the suggestions are sorted by descending confidence, at most
\* max_suggestions of them, each a note of the list kept by the inclusion rule
\* (confidence > 0.25 or an equal word) with its confidence; no kept note left
\* out has a higher confidence than one given, and notes of equal confidence
\* are in the order of the list, those left out after those given.
C24_SortedTopK ==
    last.op = "match" =>
        LET out == last.out
            all == last.all_notes
            sc == [i \in 1..Len(all) |-> SimpleScore(last.target, all[i])]
            kept == {i \in 1..Len(all) : sc[i].kept}
            given == {IndexOf(all, out[n].note) : n \in 1..Len(out)}
        IN /\ Len(out) = Min(Cardinality(kept), last.max_suggestions)
           /\ \A i \in 1..Len(all) :
                 sc[i].kept = (RLess(Relevance, sc[i].confidence) \/ sc[i].word_matches > 0)
           /\ \A n \in 1..Len(out) :
                 /\ out[n].note \in SeqSet(all)
                 /\ IndexOf(all, out[n].note) \in kept
                 /\ out[n].confidence = sc[IndexOf(all, out[n].note)].confidence
           /\ Cardinality(given) = Len(out)
           /\ \A n, m \in 1..Len(out) :
                 n < m =>
                    /\ RLeq(out[m].confidence, out[n].confidence)
                    /\ RLeq(out[n].confidence, out[m].confidence) =>
                          IndexOf(all, out[n].note) < IndexOf(all, out[m].note)
           /\ \A i \in kept \ given : \A n \in 1..Len(out) :
                 /\ RLeq(sc[i].confidence, out[n].confidence)
                 /\ RLeq(out[n].confidence, sc[i].confidence) =>
                       IndexOf(all, out[n].note) < i

\* 'ab' over the list of eight notes: seven are kept and five given; three of
\* the four notes of confidence 0.95 are given, in the order of the list, and
\* the last of them in the list is left out
C24_Witness ==
    /\ last.op = "match" /\ last.target = S_ab /\ last.all_notes = LongList
    /\ last.max_suggestions = MaxSuggestions
    /\ Len(last.out) = MaxSuggestions
    /\ Cardinality({i \in 1..Len(LongList) : SimpleScore(S_ab, LongList[i]).kept})
          > MaxSuggestions
    /\ <<last.out[3].note, last.out[4].note, last.out[5].note>>
          = <<Note_ab_ba, NoteA, Note_ab>>
    /\ last.out[5].confidence = ExactContains
    /\ SimpleScore(S_ab, Note_ab_ab).confidence = ExactContains

\* ------------------------------------------- the rules of resolve_reference
S_opened_i_created ==
    <<"o", "p", "e", "n", "e", "d", " ", "i", " ", "c", "r", "e", "a", "t", "e", "d">>

S_i == <<"i">>

S_current_opened ==
    <<"c", "u", "r", "r", "e", "n", "t", " ", "o", "p", "e", "n", "e", "d">>

\* references that match one rule, several rules, or none
RuleTerms ==
    {S_it, S_It, S_i_created, S_opened, S_current, S_this_note,
     S_opened_i_created, S_current_opened, S_i, S_abx, S_zzz}

RulesNext ==
    \/ \E t \in RuleTerms : ContextResolve(t)
    \/ UpdateFocus(NoteA, "create_note")
    \/ UpdateFocus(NoteB, "open_note")
    \/ UpdateFocus(NoteB, "edit_note")
    \/ RegisterNoteReference(S_it, NoteB, NoFail)
    \/ \E ns \in SUBSET {NoteA} : ContextRegisterEntity(S_AbX, ns)

SpecRules == Init /\ [][RulesNext]_vars

\* the rules in their order: whether the rule applies to the reference, and
\* what it gives
RuleNames == <<"pronoun", "created", "opened", "current", "memory", "entity">>

RuleApplies(reference, n) ==
    LET r == Clean(reference)
    IN CASE n = 1 -> r \in Pronouns
         [] n = 2 -> Contains(S_just_created, r) \/ Contains(S_i_created, r)
         [] n = 3 -> Contains(S_last_opened, r) \/ Contains(S_opened, r)
         [] n = 4 -> Contains(S_current, r) \/ Contains(S_this_note, r)
         [] n = 5 -> ResolveNoteReference(Mem, reference).path # None
         [] n = 6 -> \E i \in 1..Len(current_session_entities) :
                        Contains(r, Lower(current_session_entities[i][1]))

RuleGives(reference, n) ==
    CASE n = 1 -> IF current_focus # None THEN current_focus
                  ELSE IF last_modified_note # None THEN last_modified_note
                  ELSE last_created_note
      [] n = 2 -> last_created_note
      [] n = 3 -> IF last_opened_notes = <<>> THEN None ELSE Head(last_opened_notes)
      [] n = 4 -> current_focus
      [] n = 5 -> ResolveNoteReference(Mem, reference).path
      [] n = 6 ->
           LET e == current_session_entities
               first == SetMin({i \in 1..Len(e) : Contains(Clean(reference), Lower(e[i][1]))})
           IN IF e[first][2] = <<>> THEN None ELSE Head(e[first][2])

\* C25: resolve_reference gives what the first rule that applies to the
\* reference gives, in the order pronoun, created, opened, current, memory,
\* entity, also when that is None; when no rule applies it gives None.
C25_FirstRuleDecides ==
    last.op = "ctx_resolve" =>
        LET apply == {n \in 1..Len(RuleNames) : RuleApplies(last.term, n)}
        IN IF apply = {}
           THEN last.rule = "none" /\ last.path = None
           ELSE /\ last.rule = RuleNames[SetMin(apply)]
                /\ last.path = RuleGives(last.term, SetMin(apply))

\* 'it' is an alias of B in the memory and the context has no note yet: the
\* pronoun rule decides, with None
C25_Witness ==
    /\ last.op = "ctx_resolve" /\ last.term = S_it
    /\ last.rule = "pronoun" /\ last.path = None
    /\ ResolveNoteReference(Mem, S_it).path = NoteB

\* ------------------------------------------ pronouns through the cascade
PronounNext ==
    \/ \E t \in {S_it, S_It, S_that} : Resolve(t)
    \/ UpdateFocus(NoteA, "create_note")
    \/ UpdateFocus(NoteB, "edit_note")
    \/ Restart

SpecPronoun == Init /\ [][PronounNext]_vars

\* C26: while the context has a focus, and the focus is a note of the vault,
\* _resolve_note_with_fallback of a pronoun returns the focus.
C26_PronounFollowsFocus ==
    (/\ last.op = "resolve" /\ Clean(last.term) \in Pronouns
     /\ current_focus # None /\ Exists(vault, current_focus)) =>
        last.path = current_focus

\* the focus is B, "it" was resolved to A before: the memory stage gives A
C26_Witness ==
    /\ last.op = "resolve" /\ last.term = S_it
    /\ current_focus = NoteB
    /\ last.path = NoteA /\ last.source = "memory"
    /\ DictGet(user_aliases, S_it) = NoteA

\* --------------------------------------------- the latest registration wins
\* C27: after register_note_reference(t, p) every term with the key of t
\* resolves to p, whatever the key gave before, and every other key gives
\* what it gave; resolve_note_reference changes nothing.  Hence a term
\* resolves to the path of the latest registration of its key.
C27_LatestRegistrationWins ==
    [][/\ last'.op = "register" =>
            \A t \in RegTerms :
                IF Clean(t) = Clean(last'.term)
                THEN ResolveNoteReference(Mem', t) = [path |-> last'.path, how |-> "alias"]
                ELSE DictHas(user_aliases, Clean(t)) =>
                        /\ DictHas(user_aliases', Clean(t))
                        /\ DictGet(user_aliases', Clean(t)) = DictGet(user_aliases, Clean(t))
       /\ last'.op = "mem_resolve" =>
            /\ UNCHANGED memvars
            /\ DictHas(user_aliases, Clean(last'.term)) =>
                  last'.path = DictGet(user_aliases, Clean(last'.term))]_vars

\* 'Abc ' is resolved after 'abc' was registered for one note and then for
\* the other: the path is that of the second registration
C27_Witness ==
    /\ last.op = "mem_resolve" /\ last.term = S_Abc /\ last.how = "alias"
    /\ \E p \in RegPaths :
          /\ p # last.path
          /\ UsageOf(note_references, p, Clean(S_Abc)) > 0
          /\ UsageOf(note_references, last.path, Clean(S_Abc)) > 0
          /\ DictGet(user_aliases, Clean(S_Abc)) = last.path

\* ---------------------------------------------- the note returned exists
\* C28: a path returned by _resolve_note_with_fallback names a note of the
\* vault.
C28_ReturnedPathExists ==
    (last.op = "resolve" /\ last.path # None) => Exists(vault, last.path)

\* the user chose the manual entry and typed 'zzz': zzz.md is returned, and
\* there is no such note
C28_Witness ==
    /\ last.op = "resolve" /\ last.how = "manual" /\ last.source = "prompt"
    /\ last.path = S_zzz \o DotMd
    /\ ~Exists(vault, last.path)

\* ------------------------------------------------ what a command learns from
\* the results learn_from_interaction acts on: successful, with a note
Learned(results) ==
    SelectSeq(results, LAMBDA r : r.success /\ r.mentions_note /\ Truthy(ResolvedNote(r)))

\* C29: the learning of a command is done once for each successful result
\* with a note, in order, with the note of the result and the tool of the
\* call that gave the result.
C29_ResultPairedWithItsCall ==
    last.op = "command" =>
        /\ Len(last.focus_calls) = Len(Learned(last.results))
        /\ \A k \in 1..Len(last.focus_calls) :
              /\ last.focus_calls[k].note = ResolvedNote(Learned(last.results)[k])
              /\ last.focus_calls[k].kind = Learned(last.results)[k].tool

\* list_notes skipped by the user, create_note executed: the note created is
\* learned as the note of a list_notes, and is not the last created note
C29_Witness ==
    /\ last.op = "command"
    /\ Len(last.tool_calls) = 2 /\ last.tool_calls[1].tool_call = "list_notes"
    /\ Len(last.results) = 1
    /\ last.results[1].tool = "create_note" /\ last.results[1].success
    /\ last.focus_calls = <<[note |-> S_abc, kind |-> "list_notes"]>>
    /\ last_created_note = None

\* ------------------------------------------------------ the session's limit
\* Sessions of approved commands whose sentences name no note.
LimitNext ==
    \/ \E tc \in CallLists, go_on \in BOOLEAN :
         \E decisions \in [1..Len(tc) -> BOOLEAN] :
            ProcessCommand([tool_refs |-> <<>>, turn_refs |-> <<>>], tc, TRUE,
                           decisions, go_on)
    \/ Restart

SpecLimit == Init /\ [][LimitNext]_vars

====
